---- MODULE Spec2Model ----
(***************************************************************************)
(* Model of the MFA handlers of api/mfa.go: EnrollFactor,                   *)
(* EnrollWebAuthnFactor, ChallengeFactor, ChallengeWebAuthnFactor,          *)
(* VerifyFactor, VerifyWebAuthnFactor and UnenrollFactor.                   *)
(*                                                                         *)
(* Every request is served by its own handler.  A handler first reads      *)
(* (the rows the middleware loaded into the request context, the rows it   *)
(* looks up itself, the clock) and decides, and then runs its storage      *)
(* transaction; other handlers run in between.  A storage transaction is   *)
(* one atomic step that either commits all of its writes or none.          *)
(***************************************************************************)
EXTENDS Integers, Sequences, FiniteSets, TLC

\* ---------------------------------------------------------------- bounds
MaxFactorRows == 3
MaxChallengeRows == 2
MaxHistory == 6
MaxInFlight == 2

\* ----------------------------------------------------------- configuration
MaxEnrolledFactors == 2
MaxVerifiedFactors == 2
ChallengeExpiryDuration == 1
WebAuthnMaxVerifiedFactors == 1

\* ------------------------------------------------------------------ domains
Users == {"u1", "u2"}
Sessions == {"s1", "s2", "s3"}
IPs == {"ipA", "ipB"}
FactorTypes == {"totp", "webauthn", "sms"}
Slots == 1..MaxInFlight
FactorIds == 1..MaxFactorRows
ChallengeIds == 1..MaxChallengeRows
NoFactor == 0
NoChallenge == 0
WrongCode == 0
\* The codes a caller submits against factor f: the one generated from f's
\* secret, and a wrong one.
Codes(f) == {f, WrongCode}
\* The outcomes of the WebAuthn engine, which only WebAuthn factors reach.
EngineOutcomes(typ) == IF typ = "webauthn" THEN BOOLEAN ELSE {TRUE}

SessionUser(s) == IF s = "s3" THEN "u2" ELSE "u1"
IsSSOUser(u) == u = "u2"

VARIABLES factors, challenges, sessions, audit, rq, resp, credited

vars == <<factors, challenges, sessions, audit, rq, resp, credited>>
db == <<factors, challenges, sessions, audit>>

\* ------------------------------------------------------------ request slots
\* A slot holds a handler between its reads and its transaction, with the
\* locals the transaction uses.
Idle ==
  [op |-> "idle", pc |-> "idle", s |-> "s1", f |-> NoFactor, c |-> NoChallenge,
   ip |-> "ipA", typ |-> "totp", fstatus |-> "unverified", cer |-> "none"]

\* resp is the response the step just taken returned (NoResp when it returned
\* none), with what identifies the request: the session, factor and challenge
\* of a request whose transaction ran, whether the submitted code was valid,
\* in case the factor type, the factor status the handler saw, how a
\* rejected challenge failed the check or the step at which a transaction
\* stopped, and in cer the WebAuthn ceremony a challenge began.
NoResp ==
  [op |-> "none", res |-> "none", s |-> "s1", f |-> NoFactor, c |-> NoChallenge,
   valid |-> FALSE, case |-> "none", cer |-> "none"]

LiveSessions == {s \in Sessions : sessions[s].live}
LiveFactors == {f \in 1..Len(factors) : factors[f].live}
LiveChallenges == {c \in 1..Len(challenges) : challenges[c].live}

InFlight(op) == {j \in Slots : rq[j].op = op}

\* The histories explored are bounded: the audit entries written plus the
\* factor rows created, with those of the transactions already admitted, stay
\* within MaxHistory.  A request is admitted to its transaction only while
\* there is room for what it will write.
HistoryCost(op) == IF op = "enroll" THEN 2 ELSE 1

HistoryPending ==
  2 * Cardinality({j \in Slots : rq[j].pc = "tx" /\ rq[j].op = "enroll"})
  + Cardinality({j \in Slots : rq[j].pc = "tx" /\ rq[j].op # "enroll"})

HistoryRoom(op) ==
  audit + Len(factors) + HistoryPending + HistoryCost(op) <= MaxHistory

\* Slots are interchangeable: a new request takes the first free one.
FirstIdle(i) ==
  /\ resp = NoResp
  /\ rq[i].pc = "idle"
  /\ \A j \in Slots : j < i => rq[j].pc # "idle"

Finish(i, r) == rq' = [rq EXCEPT ![i] = Idle] /\ resp' = r
Proceed(i, r, pc) == rq' = [rq EXCEPT ![i] = [r EXCEPT !.pc = pc]] /\ resp' = NoResp

Init ==
  /\ factors = <<>>
  /\ challenges = <<>>
  /\ sessions = [s \in Sessions |->
       [live |-> TRUE, aal |-> "aal1", factor |-> NoFactor,
        wconf |-> FALSE, wreg |-> FALSE, wlogin |-> FALSE]]
  /\ audit = 0
  /\ rq = [i \in Slots |-> Idle]
  /\ resp = NoResp
  /\ credited = [c \in ChallengeIds |-> 0]

\* The response reaches the caller.
Respond ==
  /\ resp # NoResp
  /\ resp' = NoResp
  /\ UNCHANGED <<db, rq, credited>>

\* Time passes.  The clock is kept relative to each challenge: age is
\* time.Now() minus the row's CreatedAt, and stops counting once the
\* challenge is past its expiry.
Older(ch) ==
  IF ch.live /\ ch.age <= ChallengeExpiryDuration
  THEN [ch EXCEPT !.age = @ + 1] ELSE ch

Tick ==
  /\ resp = NoResp
  /\ \E c \in LiveChallenges : challenges[c].age <= ChallengeExpiryDuration
  /\ challenges' = [c \in 1..Len(challenges) |-> Older(challenges[c])]
  /\ resp' = NoResp
  /\ UNCHANGED <<factors, sessions, audit, rq, credited>>

\* ----------------------------------------------------------------- results
\* The error constructor each return statement uses, by result label.
ErrorClass(res) ==
  CASE res \in {"err_bad_type", "err_bad_challenge", "err_expired",
                "err_invalid_code", "err_aal2_required"} -> "bad_request"
    [] res \in {"err_max_enrolled", "err_max_verified"} -> "forbidden"
    [] res = "err_sso" -> "unprocessable"
    [] res = "err_not_found" -> "not_found"
    [] res \in {"err_owner", "err_no_ceremony"} -> "internal"
    [] res \in {"err_tx", "err_ceremony"} -> "passed_through"
    [] OTHER -> "none"

\* ---------------------------------------------------------- storage layer
DeadSession ==
  [live |-> FALSE, aal |-> "aal1", factor |-> NoFactor,
   wconf |-> FALSE, wreg |-> FALSE, wlogin |-> FALSE]

FindFactorsByUser(fs, u) == {f \in 1..Len(fs) : fs[f].live /\ fs[f].user = u}

NumVerified(fs, ids) == Cardinality({f \in ids : fs[f].status = "verified"})

\* A factor that is created already verified.
NewFactorVerified(u, typ) ==
  [user |-> u, type |-> typ, status |-> "verified", live |-> TRUE]

NewFactor(u, typ) ==
  [user |-> u, type |-> typ, status |-> "unverified", live |-> TRUE]

NewChallenge(f, ip) ==
  [factor |-> f, ip |-> ip, age |-> 0, verified |-> FALSE, live |-> TRUE]

NewAuditLogEntry(a) == a + 1

UpdateWebauthnConfiguration(ss, s) ==
  IF ss[s].live THEN [ss EXCEPT ![s].wconf = TRUE] ELSE ss

\* ------------------------------------------------------------- EnrollFactor
\* A cap that lets one factor too many through.
EnrolledCapReachedOff(n) == n > MaxEnrolledFactors

EnrolledCapReached(n) == n >= MaxEnrolledFactors

VerifiedCapReached(n) == n >= MaxVerifiedFactors

WebAuthnVerifiedCapReached(n) == n >= WebAuthnMaxVerifiedFactors

EnrollWebAuthnFactorCheck(u) ==
  LET ids == FindFactorsByUser(factors, u) IN
  IF EnrolledCapReached(Cardinality(ids)) THEN "err_max_enrolled"
  ELSE IF WebAuthnVerifiedCapReached(NumVerified(factors, ids)) THEN "err_max_verified"
  ELSE "tx"

EnrollFactorCheck(u, typ) ==
  LET ids == FindFactorsByUser(factors, u) IN
  IF IsSSOUser(u) THEN "err_sso"
  ELSE IF typ = "webauthn" THEN EnrollWebAuthnFactorCheck(u)
  ELSE IF typ # "totp" THEN "err_bad_type"
  ELSE IF EnrolledCapReached(Cardinality(ids)) THEN "err_max_enrolled"
  ELSE IF VerifiedCapReached(NumVerified(factors, ids)) THEN "err_max_verified"
  ELSE "tx"

EnrollFactorReq(i, s, typ) ==
  /\ FirstIdle(i)
  /\ s \in LiveSessions
  /\ LET d == EnrollFactorCheck(SessionUser(s), typ)
     IN IF d = "tx"
        THEN /\ Len(factors) + Cardinality(InFlight("enroll")) < MaxFactorRows
             /\ HistoryRoom("enroll")
             /\ Proceed(i, [Idle EXCEPT !.op = "enroll", !.s = s, !.typ = typ], "tx")
        ELSE Finish(i, [NoResp EXCEPT !.op = "enroll", !.res = d, !.case = typ])
  /\ UNCHANGED <<db, credited>>

EnrollFactor(i) ==
  \E s \in Sessions, typ \in FactorTypes : EnrollFactorReq(i, s, typ)

EnrollFactorTx(i) ==
  /\ resp = NoResp
  /\ rq[i].pc = "tx"
  /\ rq[i].op = "enroll"
  /\ LET r == [NoResp EXCEPT !.op = "enroll", !.case = rq[i].typ]
     IN \E fail \in BOOLEAN :
          IF fail
          THEN /\ Finish(i, [r EXCEPT !.res = "err_tx"])
               /\ UNCHANGED <<db, credited>>
          ELSE /\ factors' = Append(factors,
                                    NewFactor(SessionUser(rq[i].s), rq[i].typ))
               /\ sessions' = IF rq[i].typ = "webauthn"
                              THEN UpdateWebauthnConfiguration(sessions, rq[i].s)
                              ELSE sessions
               /\ audit' = NewAuditLogEntry(audit)
               /\ Finish(i, [r EXCEPT !.res = "ok", !.s = rq[i].s,
                                       !.f = Len(factors) + 1])
               /\ UNCHANGED <<challenges, credited>>

\* ---------------------------------------------------------- ChallengeFactor
DeadChallenge ==
  [factor |-> NoFactor, ip |-> "ipA", age |-> 0, verified |-> FALSE,
   live |-> FALSE]

CreateChallenge(chs, ch) == Append(chs, ch)

UpdateWebauthnLoginSession(ss, s) ==
  IF ss[s].live THEN [ss EXCEPT ![s].wlogin = TRUE] ELSE ss

UpdateWebauthnRegistrationSession(ss, s) ==
  IF ss[s].live THEN [ss EXCEPT ![s].wreg = TRUE] ELSE ss

\* The ceremony ChallengeWebAuthnFactor begins for a session whose
\* WebauthnRegistrationSession is nil (regNil) or not.
CeremonyFor(regNil) == IF regNil THEN "login" ELSE "registration"

\* ChallengeFactor reads nothing it later relies on, so the handler is one
\* step around its transaction.  storeFails is a storage failure inside it.
ChallengeFactorTotp(s, f, ip, storeFails) ==
  LET r == [NoResp EXCEPT !.op = "challenge", !.case = "totp"]
  IN IF storeFails
     THEN /\ resp' = [r EXCEPT !.res = "err_tx"]
          /\ UNCHANGED db
     ELSE /\ challenges' = CreateChallenge(challenges, NewChallenge(f, ip))
          /\ audit' = NewAuditLogEntry(audit)
          /\ resp' = [r EXCEPT !.res = "ok", !.f = f, !.c = Len(challenges) + 1]
          /\ UNCHANGED <<factors, sessions>>

\* ChallengeWebAuthnFactor.  The error of the transaction that stores the
\* ceremony data is dropped (login) or overwritten (registration); only the
\* registration branch goes on to create the challenge row.
ChallengeWebAuthnFactor(s, f, ip, engineOk, storeFails, storeFails2) ==
  LET r == [NoResp EXCEPT !.op = "challenge", !.case = "webauthn"]
      cer == CeremonyFor(~sessions[s].wreg)
      ss1 == IF storeFails THEN sessions
             ELSE IF cer = "login" THEN UpdateWebauthnLoginSession(sessions, s)
             ELSE UpdateWebauthnRegistrationSession(sessions, s)
  IN IF ~engineOk
     THEN /\ resp' = [r EXCEPT !.res = "err_ceremony"]
          /\ UNCHANGED db
     ELSE IF cer = "login"
     THEN /\ sessions' = ss1
          /\ resp' = [r EXCEPT !.res = "ok", !.s = s, !.f = f, !.cer = cer]
          /\ UNCHANGED <<factors, challenges, audit>>
     ELSE IF storeFails2
     THEN /\ sessions' = ss1
          /\ resp' = [r EXCEPT !.res = "err_tx"]
          /\ UNCHANGED <<factors, challenges, audit>>
     ELSE /\ sessions' = ss1
          /\ challenges' = CreateChallenge(challenges, NewChallenge(f, ip))
          /\ audit' = NewAuditLogEntry(audit)
          /\ resp' = [r EXCEPT !.res = "ok", !.s = s, !.f = f,
                               !.c = Len(challenges) + 1, !.cer = cer]
          /\ UNCHANGED factors

ChallengeFactorReq(s, f, ip, engineOk, storeFails, storeFails2) ==
  /\ resp = NoResp
  /\ s \in LiveSessions
  /\ f \in LiveFactors
  /\ Len(challenges) < MaxChallengeRows
  /\ HistoryRoom("challenge")
  /\ IF factors[f].type = "webauthn"
     THEN ChallengeWebAuthnFactor(s, f, ip, engineOk, storeFails, storeFails2)
     ELSE ChallengeFactorTotp(s, f, ip, storeFails)
  /\ UNCHANGED <<rq, credited>>

ChallengeFactor ==
  \E s \in Sessions, f \in LiveFactors, ip \in IPs, storeFails \in BOOLEAN :
    \E engineOk \in EngineOutcomes(factors[f].type) :
      ChallengeFactorReq(s, f, ip, engineOk, storeFails, FALSE)

\* ------------------------------------------------------------- VerifyFactor
\* A TOTP code is modelled by the secret it was generated from; a factor's
\* secret is modelled by the factor's id.
Secret(f) == f

\* A validation that accepts every code.
ValidateAny(code, secret) == TRUE

Validate(code, secret) == code = secret

\* The check without its single-use half, and without its IP half.
ChallengeRejectedIPOnly(ch, ip) == ch.ip # ip

ChallengeRejectedReplayOnly(ch, ip) == ch.verified

ChallengeRejected(ch, ip) == ch.verified \/ ch.ip # ip

\* A challenge that never expires.
HasExpiredNever(ch) == FALSE

HasExpired(ch) == ch.age > ChallengeExpiryDuration

NeedsPromotion(fstatus) == fstatus # "verified"

AALRank(a) == IF a = "aal2" THEN 2 ELSE 1

DestroyChallenge(chs, c) ==
  IF c \in 1..Len(chs) THEN [chs EXCEPT ![c] = DeadChallenge] ELSE chs

\* challenge.Verify: a conditional update, which fails when the row is
\* already verified (or gone).
ChallengeVerify(chs, c) ==
  IF c \in 1..Len(chs) /\ chs[c].live /\ ~chs[c].verified
  THEN [ok |-> TRUE, v |-> [chs EXCEPT ![c].verified = TRUE]]
  ELSE [ok |-> FALSE, v |-> chs]

UpdateStatus(fs, f, st) ==
  IF fs[f].live THEN [fs EXCEPT ![f].status = st] ELSE fs

\* updateMFASessionAndClaims: looks the session up, ties it to the factor and
\* raises it to AAL2; fails when the session is gone.
UpdateMFASessionAndClaims(ss, s, f) ==
  IF ss[s].live
  THEN [ok |-> TRUE, v |-> [ss EXCEPT ![s].aal = "aal2", ![s].factor = f]]
  ELSE [ok |-> FALSE, v |-> ss]

InvalidateSessionsWithAALLessThan(ss, u, aal) ==
  [s \in Sessions |->
     IF ss[s].live /\ SessionUser(s) = u /\ AALRank(ss[s].aal) < AALRank(aal)
     THEN DeadSession ELSE ss[s]]

DeadFactor ==
  [user |-> "u1", type |-> "totp", status |-> "unverified", live |-> FALSE]

DeleteUnverifiedFactors(fs, u) ==
  [f \in 1..Len(fs) |->
     IF fs[f].live /\ fs[f].user = u /\ fs[f].status = "unverified"
     THEN DeadFactor ELSE fs[f]]

\* VerifyWebAuthnFactor writes nothing to storage; engineOk is the outcome of
\* parsing the credential response and of web.CreateCredential.
VerifyWebAuthnFactorCheck(ss, s, engineOk) ==
  IF ss[s].wreg THEN (IF engineOk THEN "ok" ELSE "err_ceremony")
  ELSE IF ss[s].wlogin THEN (IF engineOk THEN "ok" ELSE "err_ceremony")
  ELSE "err_no_ceremony"

VerifyFactorCheck(s, f, c, ip, code, engineOk) ==
  IF factors[f].user # SessionUser(s) THEN "err_owner"
  ELSE IF c \notin LiveChallenges THEN "err_not_found"
  ELSE IF ChallengeRejected(challenges[c], ip) THEN "err_bad_challenge"
  ELSE IF HasExpired(challenges[c]) THEN "destroy"
  ELSE IF factors[f].type = "webauthn"
       THEN VerifyWebAuthnFactorCheck(sessions, s, engineOk)
  ELSE IF ~Validate(code, Secret(f)) THEN "err_invalid_code"
  ELSE "tx"

RejectedHow(d, c, ip) ==
  IF d # "err_bad_challenge" THEN "none"
  ELSE IF challenges[c].ip = ip THEN "replay"
  ELSE IF challenges[c].verified THEN "replay_ip"
  ELSE "ip"

VerifyFactorReq(i, s, f, c, ip, code, engineOk) ==
  /\ FirstIdle(i)
  /\ s \in LiveSessions
  /\ f \in LiveFactors
  /\ LET d == VerifyFactorCheck(s, f, c, ip, code, engineOk)
         r == [Idle EXCEPT !.op = "verify", !.s = s, !.f = f, !.c = c,
                           !.fstatus = factors[f].status]
     IN IF d = "tx" THEN HistoryRoom("verify") /\ Proceed(i, r, "tx")
        ELSE IF d = "destroy"
        THEN Proceed(i, [Idle EXCEPT !.op = "verify", !.c = c], "destroy")
        ELSE IF d = "ok"
        THEN Finish(i, [NoResp EXCEPT !.op = "verify", !.res = d, !.s = s, !.f = f,
                                      !.c = c, !.case = "webauthn"])
        ELSE Finish(i, [NoResp EXCEPT !.op = "verify", !.res = d, !.c = c,
                                      !.valid = Validate(code, Secret(f)),
                                      !.case = RejectedHow(d, c, ip)])
  /\ UNCHANGED <<db, credited>>

VerifyFactor(i) ==
  \E s \in Sessions, f \in LiveFactors, c \in ChallengeIds, ip \in IPs :
    \E code \in Codes(f), engineOk \in EngineOutcomes(factors[f].type) :
      VerifyFactorReq(i, s, f, c, ip, code, engineOk)

\* The transaction that deletes a challenge found expired.
VerifyFactorDestroy(i) ==
  /\ resp = NoResp
  /\ rq[i].pc = "destroy"
  /\ rq[i].op = "verify"
  /\ LET r == [NoResp EXCEPT !.op = "verify", !.c = rq[i].c]
     IN \E fail \in BOOLEAN :
          IF fail
          THEN /\ Finish(i, [r EXCEPT !.res = "err_tx"])
               /\ UNCHANGED <<db, credited>>
          ELSE /\ challenges' = DestroyChallenge(challenges, rq[i].c)
               /\ Finish(i, [r EXCEPT !.res = "err_expired"])
               /\ UNCHANGED <<factors, sessions, audit, credited>>

\* The steps of the success transaction, in the order of the code; ok is
\* FALSE when a step returned an error, which rolls the transaction back.
\* Marking the challenge with an unconditional update.
MarkChallengeVerifiedUnchecked(chs, c) ==
  [ok |-> TRUE,
   v |-> IF c \in 1..Len(chs) /\ chs[c].live
         THEN [chs EXCEPT ![c].verified = TRUE] ELSE chs]

\* Marking every challenge row verified along with the named one.
MarkChallengeVerifiedAll(chs, c) ==
  [ok |-> ChallengeVerify(chs, c).ok,
   v |-> [d \in 1..Len(chs) |->
            IF chs[d].live THEN [chs[d] EXCEPT !.verified = TRUE] ELSE chs[d]]]

MarkChallengeVerified(chs, c) == ChallengeVerify(chs, c)

PromoteFactor(fs, f, fstatus) ==
  IF NeedsPromotion(fstatus) THEN UpdateStatus(fs, f, "verified") ELSE fs

\* The steps of the success transaction that can return an error, in order.
VerifyTxSteps ==
  <<"audit", "challenge", "factor", "user", "session", "cookie",
    "invalidate", "sweep">>

StepNo(step) == CHOOSE n \in 1..Len(VerifyTxSteps) : VerifyTxSteps[n] = step

\* Step step had run when the transaction stopped at failAt ("none": it ran
\* to its end).
Ran(step, failAt) == failAt = "none" \/ StepNo(step) < StepNo(failAt)

\* The places the transaction can stop: anywhere on a storage failure, and no
\* later than the step that returns an error for the rows it finds.
FailurePoints(chOk, seOk) ==
  {p \in {"none"} \cup {VerifyTxSteps[n] : n \in 1..Len(VerifyTxSteps)} :
     /\ ~chOk => ~Ran("challenge", p)
     /\ ~seOk => ~Ran("session", p)}

\* a.db.Transaction keeps what its function wrote only when the function
\* returned no error.
TransactionKeepsWrites(before, written, failed) == written

Transaction(before, written, failed) == IF failed THEN before ELSE written

VerifyFactorTx(i) ==
  /\ resp = NoResp
  /\ rq[i].pc = "tx"
  /\ rq[i].op = "verify"
  /\ LET u == SessionUser(rq[i].s)
         ch == MarkChallengeVerified(challenges, rq[i].c)
         se == UpdateMFASessionAndClaims(sessions, rq[i].s, rq[i].f)
         r == [NoResp EXCEPT !.op = "verify", !.s = rq[i].s, !.f = rq[i].f,
                             !.c = rq[i].c, !.valid = TRUE]
     IN \E failAt \in FailurePoints(ch.ok, se.ok) :
          LET failed == failAt # "none"
              a1 == IF Ran("audit", failAt) THEN NewAuditLogEntry(audit) ELSE audit
              c1 == IF Ran("challenge", failAt) THEN ch.v ELSE challenges
              f1 == IF Ran("factor", failAt)
                    THEN PromoteFactor(factors, rq[i].f, rq[i].fstatus)
                    ELSE factors
              s1 == IF Ran("session", failAt) THEN se.v ELSE sessions
              s2 == IF Ran("invalidate", failAt)
                    THEN InvalidateSessionsWithAALLessThan(s1, u, "aal2") ELSE s1
              f2 == IF Ran("sweep", failAt)
                    THEN DeleteUnverifiedFactors(f1, u) ELSE f1
          IN /\ audit' = Transaction(audit, a1, failed)
             /\ challenges' = Transaction(challenges, c1, failed)
             /\ sessions' = Transaction(sessions, s2, failed)
             /\ factors' = Transaction(factors, f2, failed)
             /\ credited' = IF failed THEN credited
                            ELSE [credited EXCEPT ![rq[i].c] = @ + 1]
             /\ Finish(i, IF failed
                          THEN [r EXCEPT !.res = "err_tx", !.case = failAt]
                          ELSE [r EXCEPT !.res = "ok", !.case = rq[i].fstatus])

\* ----------------------------------------------------------- UnenrollFactor
\* An unenroll that never asks for AAL2.
UnenrollDeniedNever(fstatus, aal) == FALSE

UnenrollDenied(fstatus, aal) == fstatus = "verified" /\ aal # "aal2"

DestroyFactor(fs, f) == [fs EXCEPT ![f] = DeadFactor]

DowngradeSessionsToAAL1(ss, f) ==
  [s \in Sessions |->
     IF ss[s].live /\ ss[s].factor = f
     THEN [ss[s] EXCEPT !.aal = "aal1", !.factor = NoFactor] ELSE ss[s]]

UnenrollFactorCheck(s, f) ==
  IF UnenrollDenied(factors[f].status, sessions[s].aal) THEN "err_aal2_required"
  ELSE IF factors[f].user # SessionUser(s) THEN "err_owner"
  ELSE "tx"

UnenrollFactorReq(i, s, f) ==
  /\ FirstIdle(i)
  /\ s \in LiveSessions
  /\ f \in LiveFactors
  /\ LET d == UnenrollFactorCheck(s, f)
     IN IF d = "tx"
        THEN HistoryRoom("unenroll") /\
             Proceed(i, [Idle EXCEPT !.op = "unenroll", !.s = s, !.f = f,
                                     !.fstatus = factors[f].status], "tx")
        ELSE Finish(i, [NoResp EXCEPT !.op = "unenroll", !.res = d, !.f = f])
  /\ UNCHANGED <<db, credited>>

UnenrollFactor(i) ==
  \E s \in Sessions, f \in FactorIds : UnenrollFactorReq(i, s, f)

UnenrollFactorTx(i) ==
  /\ resp = NoResp
  /\ rq[i].pc = "tx"
  /\ rq[i].op = "unenroll"
  /\ LET r == [NoResp EXCEPT !.op = "unenroll", !.f = rq[i].f]
     IN \E fail \in BOOLEAN :
          IF fail
          THEN /\ Finish(i, [r EXCEPT !.res = "err_tx"])
               /\ UNCHANGED <<db, credited>>
          ELSE /\ factors' = DestroyFactor(factors, rq[i].f)
               /\ audit' = NewAuditLogEntry(audit)
               /\ sessions' = DowngradeSessionsToAAL1(sessions, rq[i].f)
               /\ Finish(i, [r EXCEPT !.res = "ok", !.s = rq[i].s,
                                       !.case = rq[i].fstatus])
               /\ UNCHANGED <<challenges, credited>>

\* ------------------------------------------------------------------- claims
\* A step in which a VerifyFactor request is received and its checks run.
VerifyFactorReceived ==
  /\ resp = NoResp
  /\ \/ rq' = rq /\ resp'.op = "verify"
     \/ \E i \in Slots : rq[i].pc = "idle" /\ rq'[i].op = "verify"

EnrollFactorReceived ==
  /\ resp = NoResp
  /\ \/ rq' = rq /\ resp'.op = "enroll"
     \/ \E i \in Slots : rq[i].pc = "idle" /\ rq'[i].op = "enroll"

UnenrollFactorReceived ==
  /\ resp = NoResp
  /\ \/ rq' = rq /\ resp'.op = "unenroll"
     \/ \E i \in Slots : rq[i].pc = "idle" /\ rq'[i].op = "unenroll"

\* The challenge a received VerifyFactor request names, read off its answer or
\* off the request it leaves pending.
VerifyFactorNames(c) ==
  \/ rq' = rq /\ resp'.c = c
  \/ \E i \in Slots : rq[i].pc = "idle" /\ rq'[i].op = "verify" /\ rq'[i].c = c

Owns(s, f) == factors[f].user = SessionUser(s)

NumFactors(u) == Cardinality(FindFactorsByUser(factors, u))

C2_AtMostOneSuccess == \A c \in ChallengeIds : credited[c] <= 1

\* A request that reached its transaction with the right code loses to an
\* overlapping one that has already marked the same challenge.
C2_Witness ==
  /\ resp.op = "verify"
  /\ resp.res = "err_tx"
  /\ resp.valid
  /\ resp.c \in LiveChallenges
  /\ credited[resp.c] = 1

\* C3.  A VerifyFactor call from an IP other than the one that created the
\* challenge fails and changes no state, whatever the code, and whether or
\* not the challenge has been verified or has expired.
C3_IPMismatchFails ==
  [][VerifyFactorReceived =>
       \A c \in {d \in LiveChallenges : VerifyFactorNames(d)} :
         \A ip \in IPs \ {challenges[c].ip} :
           \A i \in Slots, s \in Sessions, f \in LiveFactors :
             \A code \in Codes(f), engineOk \in EngineOutcomes(factors[f].type) :
               VerifyFactorReq(i, s, f, c, ip, code, engineOk)
             => /\ rq' = rq
                /\ UNCHANGED <<db, credited>>
                /\ resp'.res \in {"err_bad_challenge", "err_owner"}]_vars

\* The right code for an unverified challenge arrives from another IP.
C3_Witness ==
  /\ resp.op = "verify"
  /\ resp.res = "err_bad_challenge"
  /\ resp.case = "ip"
  /\ resp.valid

\* C4 (as amended).  A VerifyFactor call by the factor's owner, from the
\* creating IP, naming an unverified challenge older than the expiry
\* duration, is sent to the delete transaction without touching storage; the
\* delete transaction either deletes the row and answers with the expiry
\* error, or fails in storage and leaves the row; neither changes a factor, a
\* session or the audit log.
C4_ExpiredChallengeDeleted ==
  [][/\ VerifyFactorReceived =>
          \A c \in {d \in LiveChallenges :
                      /\ challenges[d].age > ChallengeExpiryDuration
                      /\ ~challenges[d].verified} :
            \A i \in Slots, s \in Sessions, f \in LiveFactors :
              \A code \in Codes(f), engineOk \in BOOLEAN :
                (/\ Owns(s, f)
                 /\ VerifyFactorReq(i, s, f, c, challenges[c].ip, code, engineOk))
                => /\ rq'[i].pc = "destroy"
                   /\ rq'[i].c = c
                   /\ UNCHANGED <<db, credited>>
     /\ \A i \in Slots :
          (rq[i].pc = "destroy" /\ rq'[i].pc = "idle")
            => /\ UNCHANGED <<factors, sessions, audit, credited>>
               /\ \/ /\ resp'.res = "err_expired"
                     /\ ~challenges'[rq[i].c].live
                  \/ /\ resp'.res = "err_tx"
                     /\ UNCHANGED challenges]_vars

\* C4 as stated: any VerifyFactor call naming a challenge older than the
\* expiry duration fails with the expiry error and deletes the row, changing
\* neither factor status nor sessions.
C4_ExpiredAlwaysDeleted ==
  [][/\ VerifyFactorReceived =>
          \A c \in {d \in LiveChallenges :
                      challenges[d].age > ChallengeExpiryDuration} :
            \A i \in Slots, s \in Sessions, f \in LiveFactors, ip \in IPs :
              \A code \in Codes(f), engineOk \in BOOLEAN :
                VerifyFactorReq(i, s, f, c, ip, code, engineOk)
                => /\ rq'[i].pc = "destroy"
                   /\ rq'[i].c = c
                   /\ UNCHANGED <<db, credited>>
     /\ \A i \in Slots :
          (rq[i].pc = "destroy" /\ rq'[i].pc = "idle")
            => /\ UNCHANGED <<factors, sessions, audit, credited>>
               /\ resp'.res = "err_expired"
               /\ ~challenges'[rq[i].c].live]_vars

\* An expired challenge has been deleted and the expiry error returned.
C4_Witness ==
  /\ resp.op = "verify"
  /\ resp.res = "err_expired"
  /\ ~challenges[resp.c].live

\* C5.  An EnrollFactor call of type totp or webauthn by a user who already
\* has the maximum number of enrolled factors fails with the capacity error
\* and creates no factor row, writes no audit entry and changes no session.
C5_EnrollAtCapacityFails ==
  [][EnrollFactorReceived =>
       \A i \in Slots, s \in Sessions, typ \in {"totp", "webauthn"} :
         (/\ NumFactors(SessionUser(s)) >= MaxEnrolledFactors
          /\ EnrollFactorReq(i, s, typ))
           => /\ resp'.res = "err_max_enrolled"
              /\ rq' = rq
              /\ UNCHANGED <<db, credited>>]_vars

\* A user at the cap has asked for one more factor and been refused.
C5_Witness ==
  /\ resp.op = "enroll"
  /\ resp.res = "err_max_enrolled"
  /\ resp.case \in {"totp", "webauthn"}
  /\ NumFactors("u1") >= MaxEnrolledFactors

\* C6 as stated: the number of factor rows a user owns never exceeds the
\* configured maximum, under any interleaving of EnrollFactor calls.
C6_FactorCountWithinMax ==
  \A u \in Users : NumFactors(u) <= MaxEnrolledFactors

\* C7 as stated: a TOTP verification that succeeds on an unverified factor
\* leaves the factor's status verified, and one that succeeds on a factor
\* already verified leaves the factor row as it was, still verified.
C7_SuccessLeavesFactorVerified ==
  [][\A i \in Slots :
       (/\ rq[i].op = "verify"
        /\ rq[i].pc = "tx"
        /\ rq'[i].pc = "idle"
        /\ resp'.res = "ok")
         => /\ factors'[rq[i].f].live
            /\ factors'[rq[i].f].status = "verified"
            /\ rq[i].fstatus = "verified" => factors'[rq[i].f] = factors[rq[i].f]]_vars

\* C8 as stated: right after a verification of factor F by user U through
\* session S has succeeded, U has no other unverified factor, F exists and is
\* verified, no other session of U is valid below AAL2, and S is valid at AAL2.
C8_StateAfterSuccess ==
  (resp.op = "verify" /\ resp.res = "ok")
    => /\ \A g \in LiveFactors :
            (g # resp.f /\ factors[g].user = SessionUser(resp.s))
              => factors[g].status # "unverified"
       /\ resp.f \in LiveFactors
       /\ factors[resp.f].status = "verified"
       /\ \A z \in LiveSessions :
            (z # resp.s /\ SessionUser(z) = SessionUser(resp.s))
              => sessions[z].aal = "aal2"
       /\ resp.s \in LiveSessions
       /\ sessions[resp.s].aal = "aal2"

\* C9.  An UnenrollFactor call on a verified factor from an AAL1 session is
\* refused and changes no state; from an AAL2 session of the owner it is
\* admitted to its transaction, which on commit deletes the factor and leaves
\* every session that was tied to the factor valid and at AAL1.
C9_UnenrollVerifiedNeedsAAL2 ==
  [][/\ UnenrollFactorReceived =>
          \A i \in Slots, s \in Sessions :
            \A f \in {g \in LiveFactors : factors[g].status = "verified"} :
              UnenrollFactorReq(i, s, f)
                => /\ UNCHANGED <<db, credited>>
                   /\ IF sessions[s].aal # "aal2"
                      THEN rq' = rq /\ resp'.res = "err_aal2_required"
                      ELSE Owns(s, f) => (rq'[i].pc = "tx" /\ rq'[i].f = f)
     /\ \A i \in Slots :
          (/\ rq[i].op = "unenroll"
           /\ rq[i].pc = "tx"
           /\ rq'[i].pc = "idle"
           /\ resp'.res = "ok")
            => /\ ~factors'[rq[i].f].live
               /\ \A z \in LiveSessions :
                    sessions[z].factor = rq[i].f
                      => /\ sessions'[z].live
                         /\ sessions'[z].aal = "aal1"]_vars

\* A verified factor has been unenrolled through the AAL2 session tied to it,
\* and that session is now at AAL1.
C9_Witness ==
  /\ resp.op = "unenroll"
  /\ resp.res = "ok"
  /\ resp.case = "verified"
  /\ ~factors[resp.f].live
  /\ sessions[resp.s].live
  /\ sessions[resp.s].aal = "aal1"

\* C10.  A factor row is created unverified, and a row that is verified stays
\* verified for as long as it exists.
C10_StatusNeverReverts ==
  [][/\ \A f \in 1..Len(factors') :
          f > Len(factors) => factors'[f].status = "unverified"
     /\ \A f \in LiveFactors :
          (factors[f].status = "verified" /\ factors'[f].live)
            => factors'[f].status = "verified"]_vars

\* A factor that was already verified has been verified again and is still
\* verified.
C10_Witness ==
  /\ resp.op = "verify"
  /\ resp.res = "ok"
  /\ resp.case = "verified"
  /\ resp.f \in LiveFactors
  /\ factors[resp.f].status = "verified"

\* C11 as stated: in every reachable state every session at AAL2 is tied to a
\* factor that still exists, is verified and belongs to the session's user.
C11_AAL2HasVerifiedFactor ==
  \A s \in LiveSessions :
    sessions[s].aal = "aal2"
      => /\ sessions[s].factor \in LiveFactors
         /\ factors[sessions[s].factor].status = "verified"
         /\ factors[sessions[s].factor].user = SessionUser(s)

WebAuthnChallengeSucceeds ==
  /\ resp = NoResp
  /\ resp'.op = "challenge"
  /\ resp'.case = "webauthn"
  /\ resp'.res = "ok"

\* C13 as stated: a successful ChallengeFactor on a webauthn factor begins a
\* registration ceremony and stores registration data on the session when the
\* session holds no registration in progress, and begins a login ceremony
\* and stores login data when it does.
C13_CeremonyMatchesSession ==
  [][WebAuthnChallengeSucceeds =>
       IF ~sessions[resp'.s].wreg
       THEN /\ resp'.cer = "registration"
            /\ sessions'[resp'.s].wreg
       ELSE /\ resp'.cer = "login"
            /\ sessions'[resp'.s].wlogin]_vars

\* C14 as stated: every successful ChallengeFactor on a webauthn factor,
\* whichever ceremony it starts, creates exactly one challenge row bound to
\* the factor and the requester's IP and writes one audit entry.
C14_WebAuthnChallengeCreatesRow ==
  [][WebAuthnChallengeSucceeds =>
       /\ Len(challenges') = Len(challenges) + 1
       /\ \A c \in 1..Len(challenges) : challenges'[c] = challenges[c]
       /\ \E ip \in IPs :
            challenges'[Len(challenges')] = NewChallenge(resp'.f, ip)
       /\ audit' = NewAuditLogEntry(audit)]_vars

\* C15 as stated: when VerifyFactor on a webauthn factor has returned
\* success, the named challenge is verified, the factor is verified and the
\* calling session is at AAL2.
C15_WebAuthnSuccessMarksAll ==
  (resp.op = "verify" /\ resp.res = "ok" /\ resp.case = "webauthn")
    => /\ resp.c \in LiveChallenges
       /\ challenges[resp.c].verified
       /\ resp.f \in LiveFactors
       /\ factors[resp.f].status = "verified"
       /\ sessions[resp.s].live
       /\ sessions[resp.s].aal = "aal2"

\* C16 (as amended).  A VerifyFactor call on a totp factor with a wrong code,
\* from the creating IP, naming an unverified challenge that has not expired,
\* fails and changes no state; the failure is the validation error when the
\* caller owns the factor and the internal error when the caller does not.
\* After the owner's failed call the challenge is still present and
\* unverified, and a call with the right code passes every check and is
\* admitted to the success transaction.
C16_WrongCodeFailsWithoutChange ==
  [][VerifyFactorReceived =>
       \A c \in {d \in LiveChallenges :
                   /\ VerifyFactorNames(d)
                   /\ ~challenges[d].verified
                   /\ challenges[d].age <= ChallengeExpiryDuration} :
         \A i \in Slots, s \in LiveSessions :
           \A f \in {g \in LiveFactors : factors[g].type = "totp"} :
             VerifyFactorReq(i, s, f, c, challenges[c].ip, WrongCode, TRUE)
             => /\ rq' = rq
                /\ UNCHANGED <<db, credited>>
                /\ resp'.res = IF Owns(s, f) THEN "err_invalid_code" ELSE "err_owner"
                /\ Owns(s, f)
                     => /\ (c \in LiveChallenges /\ ~challenges[c].verified)'
                        /\ (s \in LiveSessions /\ f \in LiveFactors)'
                        /\ VerifyFactorCheck(s, f, c, challenges[c].ip,
                                             Secret(f), TRUE)' = "tx"]_vars

\* C16 as stated: every such call fails with a validation error and changes
\* no state.
C16_WrongCodeFailsWithValidationError ==
  [][VerifyFactorReceived =>
       \A c \in {d \in LiveChallenges :
                   /\ VerifyFactorNames(d)
                   /\ ~challenges[d].verified
                   /\ challenges[d].age <= ChallengeExpiryDuration} :
         \A i \in Slots, s \in LiveSessions :
           \A f \in {g \in LiveFactors : factors[g].type = "totp"} :
             VerifyFactorReq(i, s, f, c, challenges[c].ip, WrongCode, TRUE)
             => /\ rq' = rq
                /\ UNCHANGED <<db, credited>>
                /\ ErrorClass(resp'.res) = "bad_request"]_vars

\* The owner's wrong code has been refused and the challenge is still
\* present, unverified and unexpired.
C16_Witness ==
  /\ resp.op = "verify"
  /\ resp.res = "err_invalid_code"
  /\ resp.c \in LiveChallenges
  /\ ~challenges[resp.c].verified
  /\ challenges[resp.c].age <= ChallengeExpiryDuration
  /\ credited[resp.c] = 0

\* C17 as stated: for a totp or webauthn EnrollFactor call by a user below
\* the total-factor cap, the call is refused with the capacity error and
\* changes no state when the user's verified factors have reached the
\* configured maximum, and is not refused for capacity when they are below
\* it.
C17_VerifiedCapIsConfigured ==
  [][EnrollFactorReceived =>
       \A i \in Slots, s \in Sessions, typ \in {"totp", "webauthn"} :
         LET ids == FindFactorsByUser(factors, SessionUser(s)) IN
         (/\ Cardinality(ids) < MaxEnrolledFactors
          /\ EnrollFactorReq(i, s, typ))
           => IF NumVerified(factors, ids) >= MaxVerifiedFactors
              THEN /\ resp'.res = "err_max_verified"
                   /\ rq' = rq
                   /\ UNCHANGED <<db, credited>>
              ELSE ErrorClass(resp'.res) # "forbidden"]_vars

\* C18 as stated: a ChallengeFactor call that returns an error has changed
\* no factor, challenge, session or audit entry; a call that returns success
\* has persisted its writes: the ceremony data on the session for a webauthn
\* factor, the challenge row and the audit entry for a totp factor.
C18_ChallengeAllOrNothing ==
  [][(resp = NoResp /\ resp'.op = "challenge") =>
       /\ resp'.res # "ok" => UNCHANGED db
       /\ (resp'.res = "ok" /\ resp'.case = "webauthn")
            => IF resp'.cer = "login"
               THEN sessions'[resp'.s].wlogin
               ELSE sessions'[resp'.s].wreg
       /\ (resp'.res = "ok" /\ resp'.case = "totp")
            => /\ Len(challenges') = Len(challenges) + 1
               /\ challenges'[resp'.c].live
               /\ challenges'[resp'.c].factor = resp'.f
               /\ audit' = NewAuditLogEntry(audit)]_vars

\* C19 as stated: when VerifyFactor on a factor has returned success, the
\* named challenge is one that was issued for that factor.
C19_ChallengeIssuedForFactor ==
  (resp.op = "verify" /\ resp.res = "ok" /\ resp.c \in LiveChallenges)
    => challenges[resp.c].factor = resp.f

\* C20.  A ChallengeFactor call on a totp factor is never refused because
\* the factor already has a challenge: unless storage fails it adds one new
\* row with a fresh id and leaves every existing row as it was.  A
\* successful VerifyFactor on one challenge leaves every other challenge row
\* as it was, and another unverified, unexpired challenge of the same factor
\* is then still admitted to the success transaction from its creating IP
\* with the right code, and the transaction finds it unverified.
C20_ChallengesIndependent ==
  [][/\ (resp = NoResp /\ resp'.op = "challenge" /\ resp'.case = "totp")
          => /\ resp'.res \in {"ok", "err_tx"}
             /\ resp'.res = "ok"
                  => /\ resp'.c = Len(challenges) + 1
                     /\ Len(challenges') = Len(challenges) + 1
                     /\ \A d \in 1..Len(challenges) : challenges'[d] = challenges[d]
                     /\ \E ip \in IPs :
                          challenges'[resp'.c] = NewChallenge(resp'.f, ip)
     /\ (resp = NoResp /\ resp'.op = "verify" /\ resp'.res = "ok"
           /\ resp'.case # "webauthn")
          => \A d \in LiveChallenges \ {resp'.c} :
               /\ challenges'[d] = challenges[d]
               /\ (/\ ~challenges[d].verified
                   /\ challenges[d].age <= ChallengeExpiryDuration
                   /\ challenges[d].factor = resp'.f
                   /\ factors'[resp'.f].live)
                    => \A s \in {resp'.s}, f \in {resp'.f} :
                         /\ VerifyFactorCheck(s, f, d, challenges[d].ip,
                                              Secret(f), TRUE)' = "tx"
                         /\ (MarkChallengeVerified(challenges, d).ok)']_vars

\* Two challenges of one totp factor have each been verified once.
C20_Witness ==
  /\ Len(challenges) = 2
  /\ \A c \in 1..2 : challenges[c].live /\ challenges[c].verified
  /\ challenges[1].factor = challenges[2].factor
  /\ credited[1] = 1
  /\ credited[2] = 1
  /\ resp.op = "verify"
  /\ resp.res = "ok"
  /\ resp.f = challenges[1].factor
  /\ factors[resp.f].type = "totp"

\* ------------------------------------------------------------ specification
Next ==
  \/ Tick
  \/ Respond
  \/ ChallengeFactor
  \/ \E i \in Slots :
       \/ EnrollFactor(i)
       \/ EnrollFactorTx(i)
       \/ VerifyFactor(i)
       \/ VerifyFactorDestroy(i)
       \/ VerifyFactorTx(i)
       \/ UnenrollFactor(i)
       \/ UnenrollFactorTx(i)

Spec == Init /\ [][Next]_vars

====
